---- MODULE Spec2Model ----
(***************************************************************************)
(* Model of api/index.py, the image converter API.                         *)
(*                                                                         *)
(* The module start-up builds SUPPORTED_FORMATS with                       *)
(* get_supported_formats(); afterwards the five endpoints serve requests.  *)
(* The Pillow codec is an external collaborator: its registry              *)
(* (registered_extensions, OPEN, SAVE, features.check) is an input of      *)
(* the start-up, its decoder and encoder are oracles of convert_image.     *)
(*                                                                         *)
(* Python strings are modelled by TLA+ strings; str.lower, str.upper,      *)
(* str.replace('.', '') and str.split('.')[-1] are given by their graphs   *)
(* on the finite vocabulary of the model.  Python lists that are built by  *)
(* iterating a set (the target lists) are modelled as sets.                *)
(***************************************************************************)
EXTENDS Integers, Sequences, FiniteSets, TLC

VARIABLES codec, pc, supported_formats, unvisited, conversion_map, alias_idx,
          SUPPORTED_FORMATS, req, inflight, delivered

vars == <<codec, pc, supported_formats, unvisited, conversion_map, alias_idx,
          SUPPORTED_FORMATS, req, inflight, delivered>>

startup_vars == <<codec, pc, supported_formats, unvisited, conversion_map,
                  alias_idx, SUPPORTED_FORMATS>>

-----------------------------------------------------------------------------
(* Bounds of the model.                                                    *)

\* largest number of pixels of an uploaded image
MaxPixels == 2

\* number of requests that may be in flight at once
MaxRequests == 2

-----------------------------------------------------------------------------
(* Python string methods on the vocabulary of the model.                   *)

\* str.lower()
Lower(s) ==
  CASE s = "PNG"  -> "png"
    [] s = "JPG"  -> "jpg"
    [] s = "JPEG" -> "jpeg"
    [] s = "TIFF" -> "tiff"
    [] s = "BMP"  -> "bmp"
    [] s = "GIF"  -> "gif"
    [] s = "WEBP" -> "webp"
    [] s = "PSD"  -> "psd"
    [] s = "EPS"  -> "eps"
    [] s = "PDF"  -> "pdf"
    [] OTHER      -> s

\* str.upper()
Upper(s) ==
  CASE s = "png"  -> "PNG"
    [] s = "jpg"  -> "JPG"
    [] s = "jpeg" -> "JPEG"
    [] s = "jpe"  -> "JPE"
    [] s = "tif"  -> "TIF"
    [] s = "tiff" -> "TIFF"
    [] s = "bmp"  -> "BMP"
    [] s = "gif"  -> "GIF"
    [] s = "webp" -> "WEBP"
    [] s = "psd"  -> "PSD"
    [] s = "eps"  -> "EPS"
    [] s = "pdf"  -> "PDF"
    [] s = "xyz"  -> "XYZ"
    [] OTHER      -> s

\* str.replace('.', '') on the registered extensions
StripDot(s) ==
  CASE s = ".bmp"  -> "bmp"
    [] s = ".gif"  -> "gif"
    [] s = ".jpe"  -> "jpe"
    [] s = ".jpg"  -> "jpg"
    [] s = ".jpeg" -> "jpeg"
    [] s = ".png"  -> "png"
    [] s = ".tif"  -> "tif"
    [] s = ".tiff" -> "tiff"
    [] s = ".webp" -> "webp"
    [] s = ".pdf"  -> "pdf"
    [] s = ".eps"  -> "eps"
    [] s = ".psd"  -> "psd"
    [] OTHER       -> s

\* filename.split('.')[-1]
LastDotPart(s) ==
  CASE s = "photo.JPG" -> "JPG"
    [] s = "scan.tif"  -> "tif"
    [] s = "data.xyz"  -> "xyz"
    [] OTHER           -> s

-----------------------------------------------------------------------------
(* The codec registry (PIL.Image, PIL.features) seen by the start-up.      *)

\* Image.registered_extensions() of a Pillow build with every plugin
StockExtensions ==
  [e \in {".bmp", ".gif", ".jpe", ".jpg", ".jpeg", ".png", ".tif", ".tiff",
          ".webp", ".pdf", ".eps", ".psd"} |->
     CASE e = ".bmp"  -> "BMP"
       [] e = ".gif"  -> "GIF"
       [] e \in {".jpe", ".jpg", ".jpeg"} -> "JPEG"
       [] e = ".png"  -> "PNG"
       [] e \in {".tif", ".tiff"} -> "TIFF"
       [] e = ".webp" -> "WEBP"
       [] e = ".pdf"  -> "PDF"
       [] e = ".eps"  -> "EPS"
       [] e = ".psd"  -> "PSD"]

Restrict(f, S) == [x \in S |-> f[x]]

\* a Pillow build with the WebP library
StockCodec ==
  [extensions |-> StockExtensions,
   OPEN       |-> {"BMP", "GIF", "JPEG", "PNG", "TIFF", "WEBP", "EPS", "PSD"},
   SAVE       |-> {"BMP", "GIF", "JPEG", "PNG", "TIFF", "WEBP", "EPS", "PDF"},
   version    |-> "Pillow",
   webp       |-> TRUE,
   jpeg_2000  |-> TRUE,
   zlib       |-> TRUE]

\* a Pillow build without the WebP library: the plugin registers no
\* extension and no save handler, features.check('webp') is False
NoWebpCodec ==
  [extensions |-> Restrict(StockExtensions,
                           DOMAIN StockExtensions \ {".webp"}),
   OPEN       |-> {"BMP", "GIF", "JPEG", "PNG", "TIFF", "EPS", "PSD"},
   SAVE       |-> {"BMP", "GIF", "JPEG", "PNG", "TIFF", "EPS", "PDF"},
   version    |-> "Pillow",
   webp       |-> FALSE,
   jpeg_2000  |-> TRUE,
   zlib       |-> TRUE]

Codecs == {StockCodec, NoWebpCodec}

-----------------------------------------------------------------------------
(* get_supported_formats, lines 24-85.                                     *)

readable_formats(c) ==
  {Lower(e) : e \in {x \in DOMAIN c.extensions : c.extensions[x] \in c.OPEN}}

writable_formats(c) ==
  {Lower(e) : e \in {x \in DOMAIN c.extensions : c.extensions[x] \in c.SAVE}}

formats_to_exclude(c) ==
  {"pdf", "eps", "wmf"} \cup (IF ~c.webp THEN {"webp"} ELSE {})

\* lines 45-52: the set the conversion map is built from
SupportedFormatsOf(c) ==
  {f \in {StripDot(e) : e \in readable_formats(c) \cap writable_formats(c)} :
     f \notin formats_to_exclude(c)}

EmptyMap == [k \in {} |-> {}]

\* d[k] = v on a Python dict
Put(d, k, v) == [x \in DOMAIN d \cup {k} |-> IF x = k THEN v ELSE d[x]]

\* lines 58-61: every other supported format
OtherFormats(S, fmt) == {other_fmt \in S : other_fmt # fmt}

\* lines 57-67: the body of the loop for one element of the set
LoopBody(d, S, fmt) ==
  LET d1 == Put(d, fmt, OtherFormats(S, fmt))
  IN  IF fmt = "jpeg" THEN Put(d1, "jpg", d1[fmt])
      ELSE IF fmt = "jpg" THEN Put(d1, "jpeg", d1[fmt])
      ELSE d1

\* lines 70-75, in the insertion order of the dict
format_aliases ==
  << <<"jpg", "jpeg">>, <<"jpeg", "jpg">>, <<"tif", "tiff">>,
     <<"tiff", "tif">> >>

\* lines 78-80: the body of the alias loop for one item
AliasBody(d, item) ==
  LET alias == item[1]
      main_format == item[2]
  IN  IF main_format \in DOMAIN d /\ alias \notin DOMAIN d
      THEN Put(d, alias, d[main_format])
      ELSE d

NoImage == [format |-> "", mode |-> "", size |-> <<0, 0>>, pixels |-> <<>>]

NoBuffer == [format |-> "", kwargs |-> {}, image |-> NoImage, nbytes |-> 0]

NoResponse == [status |-> 0, detail |-> <<>>, body |-> NoBuffer,
               media_type |-> <<>>]

IdleRequest ==
  [pc |-> "Idle", filename |-> "", target_format |-> "",
   input_image |-> NoImage, original_format |-> "",
   output_buffer |-> NoBuffer, steps |-> <<>>, response |-> NoResponse,
   sent |-> 0]

-----------------------------------------------------------------------------
(* The inputs of a convert request and the oracles of the codec.           *)

\* raw values of the path parameter target_format
TargetTokens ==
  {"png", "PNG", "jpg", "JPG", "jpeg", "tif", "tiff", "bmp", "gif", "webp",
   "xyz"}

\* file.filename of the upload
Filenames == {"photo.JPG", "data.xyz"}

Modes == {"RGB", "RGBA", "LA", "L"}

PixelsOf(mode) ==
  CASE mode = "RGB"  -> {<<0, 0, 0>>, <<200, 100, 50>>}
    [] mode = "RGBA" -> {<<0, 0, 0, 0>>, <<200, 100, 50, 128>>,
                         <<200, 100, 50, 255>>}
    [] mode = "LA"   -> {<<0, 0>>, <<90, 128>>, <<90, 255>>}
    [] mode = "L"    -> {<<0>>, <<90>>}

Sizes ==
  {s \in (1..MaxPixels) \X (1..MaxPixels) : s[1] * s[2] <= MaxPixels}

\* Image.format of an opened image: the format name of the plugin that
\* accepted the bytes; "" stands for None
DecodedFormats(c) ==
  ({"JPEG", "PNG", "TIFF", "BMP", "GIF", "WEBP", "PSD"} \cap c.OPEN)
    \cup {""}

\* what Image.open may return
Images(c) ==
  UNION {UNION {{[format |-> f, mode |-> m, size |-> s, pixels |-> p] :
                   f \in DecodedFormats(c),
                   p \in [1..(s[1] * s[2]) -> PixelsOf(m)]} :
                s \in Sizes} :
         m \in Modes}

\* outcome of Image.open(io.BytesIO(input_data)): an image, or NoImage when
\* the call raises
DecodeOutcomes(c) == Images(c) \cup {NoImage}

\* 5 * 1024 * 1024, line 185
SizeLimit == 5 * 1024 * 1024

\* outcome of Image.save on a format name the codec knows: the codec
\* rejects the buffer, or writes nbytes bytes
EncodeOutcomes ==
  {[ok |-> FALSE, nbytes |-> 0]} \cup
  {[ok |-> TRUE, nbytes |-> n] :
     n \in {SizeLimit, SizeLimit + 1, 6 * 1024 * 1024}}

-----------------------------------------------------------------------------
(* convert_image, lines 111-207.                                           *)

HTTPException(status_code, detail) ==
  [status_code |-> status_code, detail |-> detail]

\* the handler leaves with raise HTTPException: the one response of the
\* request is the error, no body
Raise(r, e) ==
  [r EXCEPT !.pc = "Error",
            !.response = [status |-> e.status_code, detail |-> e.detail,
                          body |-> NoBuffer, media_type |-> <<>>],
            !.sent = @ + 1]

\* lines 202-207: except Exception as e, for an exception raised in the
\* try block of lines 149-200
ExceptClause(r, e) ==
  Raise(r, HTTPException(500, <<"Image conversion failed">> \o e))

\* lines 112-118: the handler is entered with the upload and the path
\* parameter
Receive(target_format, filename) ==
  [IdleRequest EXCEPT !.pc = "Received", !.target_format = target_format,
                      !.filename = filename, !.steps = <<"Received">>]

\* Decode with the read inside the handler's catch-all: a failed open ends
\* as a server error
Decode_ServerError(r, outcome) ==
  IF r.pc # "Received" THEN r
  ELSE IF outcome = NoImage
  THEN Raise(r, HTTPException(500, <<"Image conversion failed">>))
  ELSE [r EXCEPT !.pc = "Decoded", !.input_image = outcome,
                 !.steps = Append(@, "Decoded")]

\* lines 120-126
Decode(r, outcome) ==
  IF r.pc # "Received" THEN r
  ELSE IF outcome = NoImage
  THEN Raise(r, HTTPException(400, <<"Invalid image file">>))
  ELSE [r EXCEPT !.pc = "Decoded", !.input_image = outcome,
                 !.steps = Append(@, "Decoded")]

\* line 129
ResolveSource(img, filename) ==
  IF img.format # "" THEN Lower(img.format)
  ELSE Lower(LastDotPart(filename))

\* lines 133-134
AliasNormalize(fmt) == IF fmt = "jpg" THEN "jpeg" ELSE fmt

\* lines 128-147
Validate(r, table) ==
  IF r.pc # "Decoded" THEN r
  ELSE
    LET original_format ==
          AliasNormalize(ResolveSource(r.input_image, r.filename))
        target_format == AliasNormalize(Lower(r.target_format))
        r1 == [r EXCEPT !.original_format = original_format,
                        !.target_format = target_format]
    IN  IF original_format \notin DOMAIN table
        THEN Raise(r1, HTTPException(400, <<"Unsupported input format",
                                            original_format>>))
        ELSE IF target_format \notin table[original_format]
        THEN Raise(r1, HTTPException(400, <<"Unsupported conversion",
                                            original_format, target_format>>))
        ELSE [r1 EXCEPT !.pc = "Validated", !.steps = Append(@, "Validated")]

\* ImagingPaste with an L mask: DIV255 and BLEND8 of Pillow's Paste.c
DIV255(a) == LET t == a + 128 IN ((t \div 256) + t) \div 256

BLEND8(mask, in1, in2) == DIV255(in1 * (255 - mask) + in2 * mask)

\* line 158: convert('RGBA') of an LA image
ToRGBA(img) ==
  IF img.mode = "LA"
  THEN [img EXCEPT !.mode = "RGBA",
                   !.pixels = [i \in DOMAIN @ |->
                                 <<@[i][1], @[i][1], @[i][1], @[i][2]>>]]
  ELSE img

\* lines 156-160: paste on a white RGB background of the same size, the
\* alpha band as mask
Flatten(img) ==
  LET src == ToRGBA(img)
      white == <<255, 255, 255>>
  IN  [format |-> "", mode |-> "RGB", size |-> img.size,
       pixels |-> [i \in DOMAIN src.pixels |->
                     [b \in 1..3 |->
                        BLEND8(src.pixels[i][4], white[b], src.pixels[i][b])]]]

\* NeedsFlatten that forgets the grayscale-with-alpha mode
NeedsFlatten_OnlyRGBA(img, target_format) ==
  img.mode = "RGBA" /\ target_format = "jpeg"

\* line 154
NeedsFlatten(img, target_format) ==
  img.mode \in {"RGBA", "LA"} /\ target_format = "jpeg"

\* lines 149-160
Adapt(r) ==
  IF r.pc # "Validated" THEN r
  ELSE IF NeedsFlatten(r.input_image, r.target_format)
  THEN [r EXCEPT !.pc = "Adapted", !.input_image = Flatten(@),
                 !.steps = Append(@, "Flattened")]
  ELSE [r EXCEPT !.pc = "Adapted"]

\* lines 164-172
SaveKwargs(target_format) ==
  CASE target_format = "jpeg" -> {<<"quality", 90>>, <<"optimize", 1>>}
    [] target_format = "png"  -> {<<"optimize", 1>>}
    [] target_format = "webp" -> {<<"quality", 90>>, <<"method", 6>>}
    [] OTHER                  -> {}

\* Image.save looks the handler up as SAVE[format.upper()]
EncoderAccepts(c, save_format) == save_format \in c.SAVE

\* lines 162-181
Encode(r, c, outcome) ==
  IF r.pc # "Adapted" THEN r
  ELSE
    LET save_format == Upper(r.target_format)
    IN  IF ~EncoderAccepts(c, save_format)
        THEN ExceptClause(r, <<"KeyError", save_format>>)
        ELSE IF ~outcome.ok
        THEN ExceptClause(r, <<"OSError">>)
        ELSE [r EXCEPT !.pc = "Encoded",
                       !.output_buffer =
                          [format |-> save_format,
                           kwargs |-> SaveKwargs(r.target_format),
                           image  |-> r.input_image,
                           nbytes |-> outcome.nbytes],
                       !.steps = Append(@, "Encoded")]

\* SizeCheck without the comparison with the limit
SizeCheck_NoLimit(r) ==
  IF r.pc # "Encoded" THEN r
  ELSE [r EXCEPT !.pc = "SizeChecked", !.steps = Append(@, "SizeChecked")]

\* lines 183-189; the raise is inside the try block, so the except clause
\* of line 202 catches it
SizeCheck(r) ==
  IF r.pc # "Encoded" THEN r
  ELSE
    LET file_size == r.output_buffer.nbytes
    IN  IF file_size > SizeLimit
        THEN ExceptClause(r, <<"400",
                               "Converted image exceeds size limit of 5MB">>)
        ELSE [r EXCEPT !.pc = "SizeChecked",
                       !.steps = Append(@, "SizeChecked")]

\* lines 191-200
Respond(r) ==
  IF r.pc # "SizeChecked" THEN r
  ELSE [r EXCEPT !.pc = "Returned",
                 !.response = [status |-> 200, detail |-> <<>>,
                               body |-> r.output_buffer,
                               media_type |-> <<"image", r.target_format>>],
                 !.steps = Append(@, "Returned"),
                 !.sent = @ + 1]

\* the handler from the point where file.read() has returned to its end
convert_image(r, c, table, decoded, encoded) ==
  Respond(SizeCheck(Encode(Adapt(Validate(Decode(r, decoded), table)),
                           c, encoded)))

Init ==
  /\ codec \in Codecs
  /\ pc = "loop"
  /\ supported_formats = SupportedFormatsOf(codec)
  /\ unvisited = supported_formats
  /\ conversion_map = EmptyMap
  /\ alias_idx = 1
  /\ SUPPORTED_FORMATS = EmptyMap
  /\ req = IdleRequest
  /\ inflight = [i \in 1..MaxRequests |-> IdleRequest]
  /\ delivered = NoResponse

\* one iteration of "for fmt in supported_formats"; a set is visited in an
\* order the hash seed of the process decides
LoopStep ==
  /\ pc = "loop"
  /\ \E fmt \in unvisited :
       /\ conversion_map' = LoopBody(conversion_map, supported_formats, fmt)
       /\ unvisited' = unvisited \ {fmt}
  /\ UNCHANGED <<codec, pc, supported_formats, alias_idx, SUPPORTED_FORMATS,
                 req, inflight, delivered>>

LoopEnd ==
  /\ pc = "loop"
  /\ unvisited = {}
  /\ pc' = "aliases"
  /\ UNCHANGED <<codec, supported_formats, unvisited, conversion_map,
                 alias_idx, SUPPORTED_FORMATS, req, inflight, delivered>>

\* one iteration of "for alias, main_format in format_aliases.items()"
AliasStep ==
  /\ pc = "aliases"
  /\ alias_idx <= Len(format_aliases)
  /\ conversion_map' = AliasBody(conversion_map, format_aliases[alias_idx])
  /\ alias_idx' = alias_idx + 1
  /\ UNCHANGED <<codec, pc, supported_formats, unvisited, SUPPORTED_FORMATS,
                 req, inflight, delivered>>

\* line 88: SUPPORTED_FORMATS = get_supported_formats()
ModuleInit ==
  /\ pc = "aliases"
  /\ alias_idx > Len(format_aliases)
  /\ SUPPORTED_FORMATS' = conversion_map
  /\ pc' = "serving"
  /\ UNCHANGED <<codec, supported_formats, unvisited, conversion_map,
                 alias_idx, req, inflight, delivered>>

Startup == LoopStep \/ LoopEnd \/ AliasStep \/ ModuleInit

-----------------------------------------------------------------------------
(* One convert request, followed statement by statement.                   *)

ReceiveStep ==
  /\ pc = "serving"
  /\ req.pc = "Idle"
  /\ \E target_format \in TargetTokens, filename \in Filenames :
       req' = Receive(target_format, filename)
  /\ UNCHANGED <<startup_vars, inflight, delivered>>

DecodeStep ==
  /\ req.pc = "Received"
  /\ \E outcome \in DecodeOutcomes(codec) : req' = Decode(req, outcome)
  /\ UNCHANGED <<startup_vars, inflight, delivered>>

ValidateStep ==
  /\ req.pc = "Decoded"
  /\ req' = Validate(req, SUPPORTED_FORMATS)
  /\ UNCHANGED <<startup_vars, inflight, delivered>>

AdaptStep ==
  /\ req.pc = "Validated"
  /\ req' = Adapt(req)
  /\ UNCHANGED <<startup_vars, inflight, delivered>>

EncodeStep ==
  /\ req.pc = "Adapted"
  /\ \E outcome \in EncodeOutcomes : req' = Encode(req, codec, outcome)
  /\ UNCHANGED <<startup_vars, inflight, delivered>>

SizeCheckStep ==
  /\ req.pc = "Encoded"
  /\ req' = SizeCheck(req)
  /\ UNCHANGED <<startup_vars, inflight, delivered>>

RespondStep ==
  /\ req.pc = "SizeChecked"
  /\ req' = Respond(req)
  /\ UNCHANGED <<startup_vars, inflight, delivered>>

\* the response has been sent; the locals of the handler are gone
Finish ==
  /\ req.pc \in {"Returned", "Error"}
  /\ req' = IdleRequest
  /\ UNCHANGED <<startup_vars, inflight, delivered>>

Next ==
  \/ Startup
  \/ ReceiveStep
  \/ DecodeStep
  \/ ValidateStep
  \/ AdaptStep
  \/ EncodeStep
  \/ SizeCheckStep
  \/ RespondStep
  \/ Finish

Spec == Init /\ [][Next]_vars

-----------------------------------------------------------------------------
(* The endpoints under concurrent requests.  The handlers are coroutines   *)
(* of one event loop: a handler runs without interleaving from one await   *)
(* to the next.  Only convert_image awaits (file.read(), line 122).        *)

Json(body) ==
  [status |-> 200, detail |-> <<>>, body |-> body,
   media_type |-> <<"application", "json">>]

\* lines 90-95
list_all_supported_formats(table) == Json(table)

\* lines 97-109
get_supported_conversions(table, format) ==
  LET format_lower == Lower(format)
  IN  IF format_lower \notin DOMAIN table
      THEN [status |-> 400,
            detail |-> <<"Unsupported input format", format, DOMAIN table>>,
            body |-> {}, media_type |-> <<"application", "json">>]
      ELSE Json(table[format_lower])

\* lines 209-217
health_check(table) ==
  Json([status |-> "healthy", supported_formats |-> DOMAIN table])

\* lines 219-231
get_version_info(table, c) ==
  Json([pillow_version |-> c.version,
        supported_formats |-> table,
        number_of_supported_formats |-> Cardinality(DOMAIN table),
        webp_support |-> c.webp,
        jpeg2000_support |-> c.jpeg_2000,
        zip_support |-> c.zlib])

\* path parameter of supported-conversions
QueryTokens == TargetTokens \cup {"jpe", "TIFF"}

\* the convert requests of the concurrent clients: one-pixel uploads
ServeTargets == {"png", "jpg", "tif", "xyz"}

ServePixel(mode) ==
  IF mode = "RGB" THEN <<200, 100, 50>> ELSE <<200, 100, 50, 128>>

ServeDecodeOutcomes(c) ==
  {[format |-> f, mode |-> m, size |-> <<1, 1>>, pixels |-> <<ServePixel(m)>>] :
     f \in DecodedFormats(c), m \in {"RGB", "RGBA"}} \cup {NoImage}

ServeEncodeOutcomes == {o \in EncodeOutcomes : o.nbytes <= SizeLimit + 1}

\* convert_image is entered and suspends at await file.read()
ConvertAccept(i) ==
  /\ pc = "serving"
  /\ inflight[i].pc = "Idle"
  /\ \E target_format \in ServeTargets :
       inflight' = [inflight EXCEPT ![i] = Receive(target_format, "data.xyz")]
  /\ UNCHANGED <<startup_vars, req, delivered>>

\* ConvertResume that records the requested target in the shared table
ConvertResume_WritesTable(i) ==
  /\ inflight[i].pc = "Received"
  /\ \E decoded \in ServeDecodeOutcomes(codec),
        encoded \in ServeEncodeOutcomes :
       delivered' = convert_image(inflight[i], codec, SUPPORTED_FORMATS,
                                  decoded, encoded).response
  /\ inflight' = [inflight EXCEPT ![i] = IdleRequest]
  /\ SUPPORTED_FORMATS' =
       Put(SUPPORTED_FORMATS, Lower(inflight[i].target_format), {})
  /\ UNCHANGED <<codec, pc, supported_formats, unvisited, conversion_map,
                 alias_idx, req>>

\* file.read() has returned: the handler runs to its end
ConvertResume(i) ==
  /\ inflight[i].pc = "Received"
  /\ \E decoded \in ServeDecodeOutcomes(codec),
        encoded \in ServeEncodeOutcomes :
       delivered' = convert_image(inflight[i], codec, SUPPORTED_FORMATS,
                                  decoded, encoded).response
  /\ inflight' = [inflight EXCEPT ![i] = IdleRequest]
  /\ UNCHANGED <<startup_vars, req>>

ListAllSupportedFormats ==
  /\ pc = "serving"
  /\ delivered' = list_all_supported_formats(SUPPORTED_FORMATS)
  /\ UNCHANGED <<startup_vars, req, inflight>>

GetSupportedConversions ==
  /\ pc = "serving"
  /\ \E format \in QueryTokens :
       delivered' = get_supported_conversions(SUPPORTED_FORMATS, format)
  /\ UNCHANGED <<startup_vars, req, inflight>>

HealthCheck ==
  /\ pc = "serving"
  /\ delivered' = health_check(SUPPORTED_FORMATS)
  /\ UNCHANGED <<startup_vars, req, inflight>>

GetVersionInfo ==
  /\ pc = "serving"
  /\ delivered' = get_version_info(SUPPORTED_FORMATS, codec)
  /\ UNCHANGED <<startup_vars, req, inflight>>

NextServe ==
  \/ Startup
  \/ \E i \in 1..MaxRequests : ConvertAccept(i)
  \/ \E i \in 1..MaxRequests : ConvertResume(i)
  \/ ListAllSupportedFormats
  \/ GetSupportedConversions
  \/ HealthCheck
  \/ GetVersionInfo

SpecServe == Init /\ [][NextServe]_vars

-----------------------------------------------------------------------------
(* Properties.                                                             *)

Built == pc = "serving"

Canonical == {"jpeg", "png", "webp", "tiff", "bmp", "gif"}

Terminal(r) == r.pc \in {"Returned", "Error"}

Did(r, step) == \E i \in DOMAIN r.steps : r.steps[i] = step

IsPrefix(s, t) == Len(s) <= Len(t) /\ \A i \in 1..Len(s) : s[i] = t[i]

\* C1: a request whose encoded output is larger than 5 MiB ends with a
\* client error (HTTP 400) and without a body.
C1_OversizeIsClientError ==
  (req.pc = "Error" /\ Did(req, "Encoded")
     /\ req.output_buffer.nbytes > SizeLimit)
    => (req.response.status = 400 /\ req.response.body = NoBuffer)

\* C2: an upload that cannot be decoded ends with HTTP 400 'Invalid image
\* file' whatever the target token is, and no step after the decoding runs.
C2_UndecodableIs400 ==
  (req.pc \notin {"Idle", "Received"} /\ req.input_image = NoImage)
    => /\ req.pc = "Error"
       /\ req.response.status = 400
       /\ req.response.detail = <<"Invalid image file">>
       /\ req.response.body = NoBuffer
       /\ req.steps = <<"Received">>
       /\ req.output_buffer = NoBuffer
       /\ req.original_format = ""

C2_Witness ==
  /\ req.pc = "Error"
  /\ req.input_image = NoImage
  /\ req.target_format = "xyz"
  /\ req.response.status = 400

\* C3: the alias tokens have the same targets: supported-conversions of
\* 'jpg' equals that of 'jpeg', and that of 'tif' equals that of 'tiff'.
C3_AliasesAgree ==
  Built =>
    \A pair \in {<<"jpg", "jpeg">>, <<"tif", "tiff">>} :
      get_supported_conversions(SUPPORTED_FORMATS, pair[1]) =
        get_supported_conversions(SUPPORTED_FORMATS, pair[2])

\* C4: when the codec reads and writes the six canonical formats and their
\* aliases, the targets of a canonical format are exactly the other five
\* canonical formats.
C4_CanonicalTargets ==
  (Built /\ (Canonical \cup {"jpg", "tif"}) \subseteq supported_formats)
    => \A f \in Canonical :
         LET res == get_supported_conversions(SUPPORTED_FORMATS, f)
         IN  res.status = 200 /\ res.body = Canonical \ {f}

\* C5: an identity conversion is always rejected: a convert request whose
\* resolved source and normalized target are the same supported format ends
\* with HTTP 400 'Unsupported conversion' and never reaches the encode step.
C5_IdentityRejected ==
  (/\ req.original_format \in DOMAIN SUPPORTED_FORMATS
   /\ req.original_format = req.target_format)
    => /\ req.pc = "Error"
       /\ req.response.status = 400
       /\ req.response.detail =
            <<"Unsupported conversion", req.original_format,
              req.target_format>>
       /\ ~Did(req, "Encoded")

LinearOrder ==
  <<"Received", "Decoded", "Validated", "Flattened", "Encoded",
    "SizeChecked", "Returned">>

OrderNoFlatten ==
  <<"Received", "Decoded", "Validated", "Encoded", "SizeChecked", "Returned">>

\* C6: the steps of a request follow Received, Decoded, Validated,
\* (Flattened), Encoded, SizeChecked, Returned without repetition; image
\* bytes are returned only after all of them, every finished request has
\* sent exactly one response, and an error response carries no bytes.
C6_LinearPipeline ==
  /\ IsPrefix(req.steps, LinearOrder) \/ IsPrefix(req.steps, OrderNoFlatten)
  /\ ~Terminal(req) => (req.sent = 0 /\ req.response = NoResponse)
  /\ Terminal(req) => req.sent = 1
  /\ req.response.body # NoBuffer
       => /\ req.pc = "Returned"
          /\ req.response.status = 200
          /\ req.steps \in {LinearOrder, OrderNoFlatten}
          /\ req.response.body = req.output_buffer
          /\ req.output_buffer.nbytes <= SizeLimit
  /\ req.pc = "Returned" => req.response.body # NoBuffer
  /\ req.pc = "Error"
       => /\ req.response.status \in {400, 500}
          /\ req.response.body = NoBuffer
          /\ ~Did(req, "Returned")

C6_Witness ==
  /\ req.pc = "Returned"
  /\ req.steps = LinearOrder
  /\ req.response.body.nbytes = SizeLimit

\* C7: for a request that passed the validation the encoder is invoked with
\* a format name it accepts.
C7_ValidatedPairsEncode ==
  (Did(req, "Validated") /\ req.pc \notin {"Validated", "Adapted"})
    => EncoderAccepts(codec, Upper(req.target_format))

\* the pixels of a flattened image whose source pixel is fully transparent
\* or fully opaque
FlattenedPixelOk(src_mode, p, q) ==
  LET alpha == IF src_mode = "LA" THEN p[2] ELSE p[4]
      rgb == IF src_mode = "LA" THEN <<p[1], p[1], p[1]>>
             ELSE <<p[1], p[2], p[3]>>
  IN  /\ Len(q) = 3
      /\ alpha = 0 => q = <<255, 255, 255>>
      /\ alpha = 255 => q = rgb

\* C8: the buffer is flattened on a white background of the same size
\* exactly when the mode is RGBA or LA and the target is jpeg; otherwise the
\* decoded buffer is the one the encoder gets.
C8_FlattenIffAlphaToJpeg ==
  [][/\ (req.pc = "Validated" /\ req'.pc # "Validated")
         => LET old == req.input_image
                new == req'.input_image
            IN  IF old.mode \in {"RGBA", "LA"} /\ req.target_format = "jpeg"
                THEN /\ new.mode = "RGB"
                     /\ new.size = old.size
                     /\ DOMAIN new.pixels = DOMAIN old.pixels
                     /\ \A i \in DOMAIN old.pixels :
                          FlattenedPixelOk(old.mode, old.pixels[i],
                                           new.pixels[i])
                     /\ Did(req', "Flattened")
                ELSE new = old /\ ~Did(req', "Flattened")
     /\ (req.pc = "Adapted" /\ req'.pc = "Encoded")
         => req'.output_buffer.image = req.input_image]_vars

C8_Witness ==
  /\ req.pc = "Encoded"
  /\ Did(req, "Flattened")
  /\ req.original_format = "png"
  /\ req.output_buffer.image.pixels = << <<255, 255, 255>>, <<90, 90, 90>> >>

RECURSIVE VisitInOrder(_, _, _)
\* the conversion map of the loop for one fixed order of visits
VisitInOrder(d, S, rest) ==
  IF rest = {} THEN d
  ELSE LET fmt == CHOOSE x \in rest : TRUE
       IN  VisitInOrder(LoopBody(d, S, fmt), S, rest \ {fmt})

RECURSIVE ApplyAliases(_, _)
ApplyAliases(d, i) ==
  IF i > Len(format_aliases) THEN d
  ELSE ApplyAliases(AliasBody(d, format_aliases[i]), i + 1)

ReferenceTable(c) ==
  ApplyAliases(VisitInOrder(EmptyMap, SupportedFormatsOf(c),
                            SupportedFormatsOf(c)), 1)

\* C9: for a given codec the table is the same for every order of the loop
\* over the supported formats: same keys and, for each key, same targets.
C9_TableDeterministic ==
  Built =>
    /\ DOMAIN SUPPORTED_FORMATS = DOMAIN ReferenceTable(codec)
    /\ \A k \in DOMAIN SUPPORTED_FORMATS :
         SUPPORTED_FORMATS[k] = ReferenceTable(codec)[k]

\* C10: once built, SUPPORTED_FORMATS keeps its start-up value under any
\* interleaving of requests to the five endpoints.
C10_TableNeverMutated ==
  [][Built => /\ SUPPORTED_FORMATS' = SUPPORTED_FORMATS
              /\ SUPPORTED_FORMATS = conversion_map
              /\ pc' = "serving"]_vars

C10_Witness ==
  /\ Built
  /\ \A i \in 1..MaxRequests : inflight[i].pc = "Received"
  /\ delivered.status = 500

====
